---- MODULE Spec2Model ----
(***************************************************************************)
(* Model of app.py: the Brazilian-locale number parser (parse_br_number),  *)
(* the display formatter br_int, and the top-to-bottom run of the          *)
(* dashboard script (load_data, the UF check, the sidebar filters, the     *)
(* real ranking, the two forecast loops and the all-UF ranking).           *)
(*                                                                         *)
(* Numbers.  A Python float that came from a short decimal literal is      *)
(* modelled by the decimal it denotes: the record [m, e] stands for        *)
(* m / 10^e and is kept normalised (no trailing zero in the fraction), so  *)
(* that equality of records is equality of values.                         *)
(*                                                                         *)
(* Strings.  A Python str is a sequence of one-character strings.          *)
(***************************************************************************)
EXTENDS Integers, Sequences, FiniteSets, TLC

VARIABLES
    \* ---- parser harness (one call of br_int / parse_br_number) ----
    mode,       \* "parse": parse the cell x; "roundtrip": format n, then parse; "app": unused
    n,          \* the integer handed to br_int
    x,          \* the cell handed to parse_br_number
    out,        \* what parse_br_number returned
    ppc,        \* position of the harness: "start", "formatted", "done"
    \* ---- the script run ----
    pc,                     \* position in the script
    columns,                \* df.columns
    df,                     \* the rows of df
    rendered,               \* what Streamlit has put on the page, in order
    ufs_selected,           \* sidebar multiselect, in selection order
    start_date, end_date,   \* sidebar date inputs
    horizon,                \* sidebar slider
    ranking_real_sorted,    \* rows of the real ranking as displayed
    loop_i,                 \* index of the forecast loop in progress
    proj_2025_by_uf_all,    \* all-UF loop: uf -> sum of yhat in 2025
    ranking_all_sorted,     \* rows of the all-UF ranking as displayed
    exc                     \* the uncaught exception that ended the run, if any

parserVars == <<mode, n, x, out, ppc>>
appVars == <<pc, columns, df, rendered, ufs_selected, start_date, end_date, horizon,
             ranking_real_sorted, loop_i, proj_2025_by_uf_all,
             ranking_all_sorted, exc>>
vars == <<mode, n, x, out, ppc, pc, columns, df, rendered, ufs_selected, start_date,
          end_date, horizon, ranking_real_sorted, loop_i, proj_2025_by_uf_all,
          ranking_all_sorted, exc>>

----------------------------------------------------------------------------
(* Bounds of the model *)

\* longest enumerated input string of the parser
MaxLen == 3
\* largest enumerated integer of the br_int round trip
MaxN == 1200
\* most rows in the loaded table
MaxRows == 2
\* largest forecast horizon enumerated (the slider allows 1..24)
MaxHorizon == 2

----------------------------------------------------------------------------
(* Decimal arithmetic *)

RECURSIVE Pow10(_)
Pow10(k) == IF k = 0 THEN 1 ELSE 10 * Pow10(k - 1)

RECURSIVE DNorm(_)
DNorm(d) ==
    IF d.e > 0 /\ d.m % 10 = 0
    THEN DNorm([m |-> d.m \div 10, e |-> d.e - 1])
    ELSE d

Dec(m, e) == DNorm([m |-> m, e |-> e])
DInt(i) == [m |-> i, e |-> 0]
DZero == DInt(0)

MaxOf(a, b) == IF a >= b THEN a ELSE b

\* a's mantissa at scale e (e >= a.e)
Scaled(a, e) == a.m * Pow10(e - a.e)

DAdd(a, b) ==
    LET e == MaxOf(a.e, b.e) IN Dec(Scaled(a, e) + Scaled(b, e), e)
DSub(a, b) ==
    LET e == MaxOf(a.e, b.e) IN Dec(Scaled(a, e) - Scaled(b, e), e)
DLess(a, b) ==
    LET e == MaxOf(a.e, b.e) IN Scaled(a, e) < Scaled(b, e)
DMax(a, b) == IF DLess(a, b) THEN b ELSE a

\* Python int(f): truncation toward zero
PyInt(d) ==
    IF d.m >= 0 THEN d.m \div Pow10(d.e) ELSE -((-d.m) \div Pow10(d.e))

----------------------------------------------------------------------------
(* Strings *)

DigitChars == {"0", "1", "2", "3", "4", "5", "6", "7", "8", "9"}

DigitVal(c) ==
    CASE c = "0" -> 0 [] c = "1" -> 1 [] c = "2" -> 2 [] c = "3" -> 3
      [] c = "4" -> 4 [] c = "5" -> 5 [] c = "6" -> 6 [] c = "7" -> 7
      [] c = "8" -> 8 [] c = "9" -> 9

DigitChar(i) ==
    CASE i = 0 -> "0" [] i = 1 -> "1" [] i = 2 -> "2" [] i = 3 -> "3"
      [] i = 4 -> "4" [] i = 5 -> "5" [] i = 6 -> "6" [] i = 7 -> "7"
      [] i = 8 -> "8" [] i = 9 -> "9"

Contains(s, c) == \E i \in 1..Len(s) : s[i] = c

\* str.strip(): leading and trailing whitespace removed
RECURSIVE StripLeft(_)
StripLeft(s) ==
    IF s # <<>> /\ Head(s) = " " THEN StripLeft(Tail(s)) ELSE s

RECURSIVE StripRight(_)
StripRight(s) ==
    IF s # <<>> /\ s[Len(s)] = " " THEN StripRight(SubSeq(s, 1, Len(s) - 1)) ELSE s

Strip(s) == StripRight(StripLeft(s))

\* str.replace(a, b) for a one-character a; b is a string (possibly empty)
RECURSIVE Replace(_, _, _)
Replace(s, a, b) ==
    IF s = <<>> THEN <<>>
    ELSE (IF Head(s) = a THEN b ELSE <<Head(s)>>) \o Replace(Tail(s), a, b)

\* ''.join(ch for ch in s if (ch.isdigit() or ch in ".-"))
KeepNumeric(s) == SelectSeq(s, LAMBDA ch : ch \in DigitChars \/ ch \in {".", "-"})

RECURSIVE DigitsValue(_)
DigitsValue(s) ==
    IF s = <<>> THEN 0 ELSE 10 * DigitsValue(SubSeq(s, 1, Len(s) - 1)) + DigitVal(s[Len(s)])

----------------------------------------------------------------------------
(* parse_br_number *)

None == [ok |-> FALSE, v |-> DZero]
Float(d) == [ok |-> TRUE, v |-> d]

\* Cells: the missing sentinel, a number, or a string
NaNCell == [k |-> "nan", v |-> DZero, s |-> <<>>]
NumCell(d) == [k |-> "num", v |-> d, s |-> <<>>]
StrCell(s) == [k |-> "str", v |-> DZero, s |-> s]

\* a variant of float() that reads a string without digits as 0.0
PyFloatZeroDefault(s) ==
    LET neg  == s # <<>> /\ Head(s) = "-"
        body == IF neg THEN Tail(s) ELSE s
        dots == {i \in 1..Len(body) : body[i] = "."}
        digs == SelectSeq(body, LAMBDA ch : ch \in DigitChars)
        frac == IF dots = {} THEN 0 ELSE Len(body) - (CHOOSE i \in dots : TRUE)
        val  == Dec(DigitsValue(digs), frac)
    IN  IF Contains(body, "-") \/ Cardinality(dots) > 1
        THEN None
        ELSE IF digs = <<>> THEN Float(DZero)
        ELSE Float(IF neg THEN Dec(-val.m, val.e) ELSE val)

\* float(s) inside try/except, for s made of digits, '.' and '-' only (what
\* KeepNumeric leaves): an optional leading '-', then digits with at most one
\* '.', and at least one digit; anything else raises ValueError, caught as None
PyFloat(s) ==
    LET neg  == s # <<>> /\ Head(s) = "-"
        body == IF neg THEN Tail(s) ELSE s
        dots == {i \in 1..Len(body) : body[i] = "."}
        digs == SelectSeq(body, LAMBDA ch : ch \in DigitChars)
        frac == IF dots = {} THEN 0 ELSE Len(body) - (CHOOSE i \in dots : TRUE)
        val  == Dec(DigitsValue(digs), frac)
    IN  IF Contains(body, "-") \/ Cardinality(dots) > 1 \/ digs = <<>>
        THEN None
        ELSE Float(IF neg THEN Dec(-val.m, val.e) ELSE val)

\* the separator rules of lines 28-34
BrSeparators(s) ==
    IF Contains(s, ".") /\ Contains(s, ",")
    THEN Replace(Replace(s, ".", <<>>), ",", <<".">>)
    ELSE IF Contains(s, ",")
    THEN Replace(s, ",", <<".">>)
    ELSE s

parse_br_number(c) ==
    IF c.k = "nan" THEN None
    ELSE IF c.k = "num" THEN Float(c.v)
    ELSE PyFloat(KeepNumeric(BrSeparators(Replace(Strip(c.s), " ", <<>>))))

----------------------------------------------------------------------------
(* br_int *)

RECURSIVE NatDigits(_)
NatDigits(i) ==
    IF i < 10 THEN <<DigitChar(i)>> ELSE NatDigits(i \div 10) \o <<DigitChar(i % 10)>>

Pad3(i) == <<DigitChar(i \div 100), DigitChar((i \div 10) % 10), DigitChar(i % 10)>>

\* f"{i:,.0f}": groups of three digits separated by ','
RECURSIVE CommaGrouped(_)
CommaGrouped(i) ==
    IF i < 1000 THEN NatDigits(i)
    ELSE CommaGrouped(i \div 1000) \o <<",">> \o Pad3(i % 1000)

\* br_int for a non-missing, non-negative integer
br_int(i) == Replace(CommaGrouped(i), ",", <<".">>)

----------------------------------------------------------------------------
(* One call of the parser, and the br_int round trip *)

Alphabet == {"0", "1", ".", ",", "-", " ", "a"}

BoundedStrings == UNION {[1..k -> Alphabet] : k \in 0..MaxLen}

ExampleStrings ==
    { <<"1", ".", "2", "3", "4", ",", "5", "6">>,
      <<"4", "4", "7", ",", "5", "4">>,
      <<"4", "0", ".", "9", "1", "7">>,
      <<"a", "b", "c">>,
      <<" ", "1", ".", "0", "0", "0", " ">> }

ParseInputs ==
    {NaNCell, NumCell(DInt(3)), NumCell(Dec(15, 1))}
        \cup {StrCell(s) : s \in BoundedStrings \cup ExampleStrings}

RoundTripInputs == (0..MaxN) \cup {40917, 999999, 1234567, 999999999}

\* the script's variables while only the parser is exercised
AppIdle ==
    /\ pc = "off"
    /\ columns = {}
    /\ df = <<>>
    /\ rendered = <<>>
    /\ ufs_selected = <<>>
    /\ start_date = 0
    /\ end_date = 0
    /\ horizon = 1
    /\ ranking_real_sorted = <<>>
    /\ loop_i = 0
    /\ proj_2025_by_uf_all = <<>>
    /\ ranking_all_sorted = <<>>
    /\ exc = [type |-> "none", arg |-> ""]

InitParse ==
    /\ \/ mode = "parse" /\ n = 0 /\ x \in ParseInputs
       \/ mode = "roundtrip" /\ n \in RoundTripInputs /\ x = NaNCell
    /\ out = None
    /\ ppc = "start"
    /\ AppIdle

\* x = br_int(n)
FormatBrInt ==
    /\ mode = "roundtrip" /\ ppc = "start"
    /\ x' = StrCell(br_int(n))
    /\ ppc' = "formatted"
    /\ UNCHANGED <<mode, n, out>>
    /\ UNCHANGED appVars

\* out = parse_br_number(x)
ParseCell ==
    /\ \/ mode = "parse" /\ ppc = "start"
       \/ mode = "roundtrip" /\ ppc = "formatted"
    /\ out' = parse_br_number(x)
    /\ ppc' = "done"
    /\ UNCHANGED <<mode, n, x>>
    /\ UNCHANGED appVars

NextParse == FormatBrInt \/ ParseCell

SpecParse == InitParse /\ [][NextParse]_vars

----------------------------------------------------------------------------
(* The table and its inputs *)

\* A date is a month: year * 12 + (month - 1)
Month(y, m) == y * 12 + (m - 1)
\* ds.dt.year
Year(d) == d \div 12

TargetYears == {2023, 2024, 2025}

\* the regions of the enumerated tables, in sorted() order
UFOrder == <<"AC", "SP">>
DateList == <<Month(2023, 6), Month(2024, 6), Month(2025, 10)>>
\* raw y cells: an unparseable string and "1,5"
CellList == <<StrCell(<<"a">>), StrCell(<<"1", ",", "5">>)>>

Dates == {DateList[i] : i \in 1..Len(DateList)}

NRowChoices == Len(UFOrder) * Len(DateList) * Len(CellList)

RowOf(i) ==
    [UF |-> UFOrder[(i \div (Len(DateList) * Len(CellList))) + 1],
     ds |-> DateList[((i \div Len(CellList)) % Len(DateList)) + 1],
     y  |-> CellList[(i % Len(CellList)) + 1]]

\* Tables of 1..MaxRows rows.  No computation of the script reads the order of
\* the rows (sorted(), pivot sums and boolean filters do not), so one table
\* per multiset of rows is enumerated.
RawTables ==
    LET idx == UNION {[1..k -> 0..(NRowChoices - 1)] : k \in 1..MaxRows}
    IN  {[i \in DOMAIN t |-> RowOf(t[i])] :
            t \in {u \in idx : \A i \in 1..(Len(u) - 1) : u[i] <= u[i + 1]}}

\* Headers of the CSV.  "Mes/Ano" stands for the source's "M\^es/Ano".
RawHeaders ==
    { {"UF", "Mes/Ano", "Tentativa de Reserva"},
      {"UF", "ds", "y"},
      {"Mes/Ano", "Tentativa de Reserva"},
      {"UF", "Tentativa de Reserva"},
      {"UF", "Mes/Ano"} }

Required == {"UF", "ds", "y"}

\* sorted(set of regions)
Sorted(S) == SelectSeq(UFOrder, LAMBDA u : u \in S)

Range(s) == {s[i] : i \in 1..Len(s)}

\* sorted(df["UF"].dropna().unique())
UniqueUFs(rows) == Sorted({rows[i].UF : i \in 1..Len(rows)})

\* dict[k] = v
Put(d, k, v) == [u \in (DOMAIN d) \cup {k} |-> IF u = k THEN v ELSE d[u]]

\* dict.get(k, default)
Get(d, k, default) == IF k \in DOMAIN d THEN d[k] ELSE default

----------------------------------------------------------------------------
(* load_data *)

\* df.rename(columns={"Mes/Ano": "ds", "Tentativa de Reserva": "y"}) when the
\* header has "Mes/Ano"
RenameColumns(cols) ==
    IF "Mes/Ano" \in cols
    THEN {IF c = "Mes/Ano" THEN "ds"
          ELSE IF c = "Tentativa de Reserva" THEN "y" ELSE c : c \in cols}
    ELSE cols

\* df['y'].apply(parse_br_number), then pd.to_numeric(errors='coerce'):
\* None becomes NaN (ok = FALSE)
ParseColumnY(rows) == [i \in DOMAIN rows |-> [rows[i] EXCEPT !.y = parse_br_number(@)]]

load_data(cols, rows) ==
    LET renamed == RenameColumns(cols)
    IN  [columns |-> renamed,
         rows    |-> IF "y" \in renamed THEN ParseColumnY(rows) ELSE rows]

----------------------------------------------------------------------------
(* Year totals: pivot_table(index="UF", columns="Year", values="y",
   aggfunc="sum", fill_value=0), get_year_value / get_year_all *)

\* sum of the non-NaN y of the rows of region uf in year yr (NaN is skipped)
RECURSIVE SumY(_, _, _)
SumY(rows, uf, yr) ==
    IF rows = <<>> THEN DZero
    ELSE LET r == Head(rows)
             rest == SumY(Tail(rows), uf, yr)
         IN  IF r.UF = uf /\ Year(r.ds) = yr /\ r.y.ok THEN DAdd(r.y.v, rest) ELSE rest

\* the pivot with the columns 2023, 2024, 2025 added when absent
pivot_table(rows) ==
    [uf \in {rows[i].UF : i \in 1..Len(rows)} |->
        [yr \in {Year(rows[i].ds) : i \in 1..Len(rows)} \cup TargetYears |->
            SumY(rows, uf, yr)]]

\* int(row.iloc[0][year]) when the region has a row, else 0
get_year(pivot, uf, yr) ==
    IF uf \in DOMAIN pivot /\ yr \in DOMAIN pivot[uf]
    THEN DInt(PyInt(pivot[uf][yr]))
    ELSE DZero

\* df[(df["UF"].isin(ufs_selected)) & (df["ds"] >= start) & (df["ds"] <= end)]
FilterRows(rows, sel, from, to) ==
    SelectSeq(rows, LAMBDA r : r.UF \in Range(sel) /\ r.ds >= from /\ r.ds <= to)

df_uf == FilterRows(df, ufs_selected, start_date, end_date)

pivot_years == pivot_table(df_uf)
pivot_all_years == pivot_table(df)

get_year_value(uf, yr) == get_year(pivot_years, uf, yr)
get_year_all(uf, yr) == get_year(pivot_all_years, uf, yr)

all_ufs == UniqueUFs(df)

RowsOfUF(rows, uf) == SelectSeq(rows, LAMBDA r : r.UF = uf)

----------------------------------------------------------------------------
(* Declines and rankings *)

\* a variant of the decline that keeps the sign
SignedDelta(a, b) == DSub(a, b)

\* max(0, a - b) of lines 147-149
DeclineReal(a, b) == DMax(DZero, DSub(a, b))

\* (a - b).clip(lower=0) of lines 273-275
DeclineClip(a, b) == IF DLess(DSub(a, b), DZero) THEN DZero ELSE DSub(a, b)

Max3(a, b, c) == DMax(DMax(a, b), c)

ranking_real_row(uf) ==
    LET y2023 == get_year_value(uf, 2023)
        y2024 == get_year_value(uf, 2024)
        y2025 == get_year_value(uf, 2025)
        q1 == DeclineReal(y2023, y2024)
        q2 == DeclineReal(y2023, y2025)
        q3 == DeclineReal(y2024, y2025)
    IN  [UF |-> uf, q2423 |-> q1, q2523 |-> q2, q2524 |-> q3, maxq |-> Max3(q1, q2, q3)]

ranking_real == [i \in 1..Len(ufs_selected) |-> ranking_real_row(ufs_selected[i])]

ranking_all_row(uf) ==
    LET y2023 == get_year_all(uf, 2023)
        y2024 == get_year_all(uf, 2024)
        p2025 == Get(proj_2025_by_uf_all, uf, DZero)
        q1 == DeclineClip(y2023, y2024)
        q2 == DeclineClip(y2023, p2025)
        q3 == DeclineClip(y2024, p2025)
    IN  [UF |-> uf, y2023 |-> y2023, y2024 |-> y2024, p2025 |-> p2025,
         q2423 |-> q1, q2523 |-> q2, q2524 |-> q3, maxq |-> Max3(q1, q2, q3)]

ranking_all == [i \in 1..Len(all_ufs) |-> ranking_all_row(all_ufs[i])]

Perms(k) == {p \in [1..k -> 1..k] : \A i, j \in 1..k : i # j => p[i] # p[j]}

\* sort_values(key, ascending=False) with the default kind="quicksort", which
\* gives no guarantee for equal keys: every arrangement that is descending in
\* the key is a possible result.  p[i] is the input position of output row i.
SortOrders(rows) ==
    {p \in Perms(Len(rows)) :
        \A i \in 1..(Len(rows) - 1) : ~DLess(rows[p[i]].maxq, rows[p[i + 1]].maxq)}

Permuted(rows, p) == [i \in 1..Len(rows) |-> rows[p[i]]]

----------------------------------------------------------------------------
(* The forecasting collaborator (Prophet), as the script uses it.  Prophet is
   an external library: a call either returns a forecast, whose point
   estimates are drawn from YHats, or raises, and the script decides neither. *)

\* df["ds"].max() of a non-empty frame
LastDate(rows) == CHOOSE d \in {rows[i].ds : i \in 1..Len(rows)} :
                     \A i \in 1..Len(rows) : rows[i].ds <= d

\* make_future_dataframe(periods=h, freq="MS") restricted to ds > last_date:
\* the h months after the last month of the history
FutureMonths(rows, h) == (LastDate(rows) + 1)..(LastDate(rows) + h)

\* point estimates the collaborator may return for a month
YHats == {DInt(1), Dec(25, 1)}

\* forecast_future["yhat"], by month: whatever the collaborator returns
Forecasts(rows, h) == [FutureMonths(rows, h) -> YHats]

RECURSIVE SumOver(_, _)
SumOver(f, S) ==
    IF S = {} THEN DZero
    ELSE LET m == CHOOSE k \in S : TRUE IN DAdd(f[m], SumOver(f, S \ {m}))

\* forecast_future[forecast_future["ds"].dt.year == 2025]["yhat"].sum()
YHatSum2025(f) == SumOver(f, {m \in DOMAIN f : Year(m) = 2025})

----------------------------------------------------------------------------
(* The run of the script *)

NoException == [type |-> "none", arg |-> ""]

Init ==
    /\ mode = "app" /\ n = 0 /\ x = NaNCell /\ out = None /\ ppc = "off"
    /\ pc = "load"
    /\ columns \in RawHeaders
    /\ df \in RawTables
    /\ rendered = <<>>
    /\ ufs_selected = <<>>
    /\ start_date = 0
    /\ end_date = 0
    /\ horizon = 1
    /\ ranking_real_sorted = <<>>
    /\ loop_i = 0
    /\ proj_2025_by_uf_all = <<>>
    /\ ranking_all_sorted = <<>>
    /\ exc = NoException

\* an uncaught exception: Streamlit shows it and the run ends
Raise(type, arg) ==
    /\ exc' = [type |-> type, arg |-> arg]
    /\ rendered' = Append(rendered, "exception")
    /\ pc' = "crashed"

\* line 57: df = load_data(SHEET_CSV)
LoadData ==
    /\ pc = "load"
    /\ columns' = load_data(columns, df).columns
    /\ df' = load_data(columns, df).rows
    /\ pc' = "check_uf"
    /\ UNCHANGED <<rendered, ufs_selected, start_date, end_date, horizon,
                   ranking_real_sorted, loop_i, proj_2025_by_uf_all,
                   ranking_all_sorted, exc>>
    /\ UNCHANGED parserVars

\* lines 60-62: st.error(...); st.stop()
StopNoUF ==
    /\ pc = "check_uf"
    /\ "UF" \notin columns
    /\ rendered' = Append(rendered, "error")
    /\ pc' = "stopped"
    /\ UNCHANGED <<columns, df, ufs_selected, start_date, end_date, horizon,
                   ranking_real_sorted, loop_i, proj_2025_by_uf_all,
                   ranking_all_sorted, exc>>
    /\ UNCHANGED parserVars

\* line 64: st.title(...)
Title ==
    /\ pc = "check_uf"
    /\ "UF" \in columns
    /\ rendered' = Append(rendered, "title")
    /\ pc' = "sidebar"
    /\ UNCHANGED <<columns, df, ufs_selected, start_date, end_date, horizon,
                   ranking_real_sorted, loop_i, proj_2025_by_uf_all,
                   ranking_all_sorted, exc>>
    /\ UNCHANGED parserVars

\* line 72: df["ds"] of a frame without the column raises KeyError
SidebarKeyError ==
    /\ pc = "sidebar"
    /\ "ds" \notin columns
    /\ Raise("KeyError", "ds")
    /\ UNCHANGED <<columns, df, ufs_selected, start_date, end_date, horizon,
                   ranking_real_sorted, loop_i, proj_2025_by_uf_all,
                   ranking_all_sorted>>
    /\ UNCHANGED parserVars

\* the multiselect returns the chosen regions in the order chosen
Selections(ufs) ==
    {s \in UNION {[1..k -> Range(ufs)] : k \in 0..Len(ufs)} :
        \A i, j \in 1..Len(s) : i # j => s[i] # s[j]}

\* lines 69-74: the sidebar widgets return what the user chose: the regions,
\* a date range (initial date not after the final date) and the horizon
Sidebar ==
    /\ pc = "sidebar"
    /\ "ds" \in columns
    /\ ufs_selected' \in Selections(UniqueUFs(df))
    /\ \E from \in Dates, to \in Dates :
          /\ from <= to
          /\ start_date' = from
          /\ end_date' = to
    /\ horizon' \in 1..MaxHorizon
    /\ pc' = "ranking_real"
    /\ UNCHANGED <<columns, df, rendered, ranking_real_sorted, loop_i,
                   proj_2025_by_uf_all, ranking_all_sorted, exc>>
    /\ UNCHANGED parserVars

\* line 126: pivot_table(values="y") of a frame without the column raises KeyError
RankingRealKeyError ==
    /\ pc = "ranking_real"
    /\ "y" \notin columns
    /\ Raise("KeyError", "y")
    /\ UNCHANGED <<columns, df, ufs_selected, start_date, end_date, horizon,
                   ranking_real_sorted, loop_i, proj_2025_by_uf_all,
                   ranking_all_sorted>>
    /\ UNCHANGED parserVars

\* where the script goes after iteration i of the selected-UF loop
AfterSelected(i) ==
    IF i < Len(ufs_selected)
    THEN pc' = "loop_selected" /\ loop_i' = i + 1
    ELSE pc' = "loop_all" /\ loop_i' = 1

\* lines 124-174: the real ranking, sorted and displayed
RankingReal ==
    /\ pc = "ranking_real"
    /\ "y" \in columns
    /\ \E p \in SortOrders(ranking_real) :
          ranking_real_sorted' = Permuted(ranking_real, p)
    /\ rendered' = rendered \o <<"subheader", "dataframe", "subheader">>
    /\ AfterSelected(0)
    /\ UNCHANGED <<columns, df, ufs_selected, start_date, end_date, horizon,
                   proj_2025_by_uf_all, ranking_all_sorted, exc>>
    /\ UNCHANGED parserVars

df_prophet == RowsOfUF(df_uf, ufs_selected[loop_i])

\* lines 177-178: if df_prophet.empty: continue
SelectedSkipEmpty ==
    /\ pc = "loop_selected"
    /\ df_prophet = <<>>
    /\ AfterSelected(loop_i)
    /\ UNCHANGED <<columns, df, rendered, ufs_selected, start_date, end_date, horizon,
                   ranking_real_sorted, proj_2025_by_uf_all,
                   ranking_all_sorted, exc>>
    /\ UNCHANGED parserVars

\* lines 180-225: the collaborator returns a forecast; the charts, the metric
\* and the table of the region are displayed.  proj_2025_by_uf[uf] and
\* forecast_2025_by_uf[uf] are written here and read only by the metric of the
\* same iteration; the page is recorded by element kind, so they are not kept.
SelectedForecast ==
    /\ pc = "loop_selected"
    /\ df_prophet # <<>>
    /\ rendered' = rendered \o <<"subheader", "chart", "subheader", "chart",
                                 "subheader", "metric", "dataframe">>
    /\ AfterSelected(loop_i)
    /\ UNCHANGED <<columns, df, ufs_selected, start_date, end_date, horizon,
                   ranking_real_sorted, proj_2025_by_uf_all, ranking_all_sorted, exc>>
    /\ UNCHANGED parserVars

\* lines 180-184: the collaborator raises; nothing in the loop catches it
SelectedForecastRaises ==
    /\ pc = "loop_selected"
    /\ df_prophet # <<>>
    /\ Raise("ForecastError", ufs_selected[loop_i])
    /\ UNCHANGED <<columns, df, ufs_selected, start_date, end_date, horizon,
                   ranking_real_sorted, loop_i, proj_2025_by_uf_all,
                   ranking_all_sorted>>
    /\ UNCHANGED parserVars

df_u == RowsOfUF(df, all_ufs[loop_i])

AfterAll(i) ==
    IF i < Len(all_ufs)
    THEN pc' = "loop_all" /\ loop_i' = i + 1
    ELSE pc' = "ranking_all" /\ loop_i' = 0

\* lines 251-265: one region of the all-UF loop, the collaborator returning
AllForecast ==
    /\ pc = "loop_all"
    /\ IF df_u = <<>>
       THEN proj_2025_by_uf_all' = Put(proj_2025_by_uf_all, all_ufs[loop_i], DZero)
       ELSE \E f \in Forecasts(df_u, horizon) :
               proj_2025_by_uf_all' =
                   Put(proj_2025_by_uf_all, all_ufs[loop_i], YHatSum2025(f))
    /\ AfterAll(loop_i)
    /\ UNCHANGED <<columns, df, rendered, ufs_selected, start_date, end_date, horizon,
                   ranking_real_sorted, ranking_all_sorted, exc>>
    /\ UNCHANGED parserVars

\* lines 257-261: the collaborator raises; nothing in the loop catches it
AllForecastRaises ==
    /\ pc = "loop_all"
    /\ df_u # <<>>
    /\ Raise("ForecastError", all_ufs[loop_i])
    /\ UNCHANGED <<columns, df, ufs_selected, start_date, end_date, horizon,
                   ranking_real_sorted, loop_i, proj_2025_by_uf_all,
                   ranking_all_sorted>>
    /\ UNCHANGED parserVars

\* lines 268-303: the all-UF ranking, sorted and displayed
RankingAll ==
    /\ pc = "ranking_all"
    /\ \E p \in SortOrders(ranking_all) :
          ranking_all_sorted' = Permuted(ranking_all, p)
    /\ rendered' = rendered \o <<"subheader", "dataframe">>
    /\ pc' = "detail"
    /\ UNCHANGED <<columns, df, ufs_selected, start_date, end_date, horizon,
                   ranking_real_sorted, loop_i, proj_2025_by_uf_all,
                   exc>>
    /\ UNCHANGED parserVars

\* monthly_2025_by_uf_all[uf] is not empty
HasMonthly2025(uf) ==
    \E m \in FutureMonths(RowsOfUF(df, uf), horizon) : Year(m) = 2025

\* lines 306-342: the optional detail of one region, then the closing texts
Detail ==
    /\ pc = "detail"
    /\ \E uf_detail_all \in {"Nenhum"} \cup Range(all_ufs) :
          rendered' = rendered
              \o (IF uf_detail_all = "Nenhum" THEN <<>>
                  ELSE IF HasMonthly2025(uf_detail_all)
                       THEN <<"subheader", "chart", "metric">>
                       ELSE <<"write", "metric">>)
              \o <<"markdown", "markdown">>
    /\ pc' = "done"
    /\ UNCHANGED <<columns, df, ufs_selected, start_date, end_date, horizon,
                   ranking_real_sorted, loop_i, proj_2025_by_uf_all,
                   ranking_all_sorted, exc>>
    /\ UNCHANGED parserVars

Next ==
    \/ LoadData
    \/ StopNoUF
    \/ Title
    \/ SidebarKeyError
    \/ Sidebar
    \/ RankingRealKeyError
    \/ RankingReal
    \/ SelectedSkipEmpty
    \/ SelectedForecast
    \/ SelectedForecastRaises
    \/ AllForecast
    \/ AllForecastRaises
    \/ RankingAll
    \/ Detail

Spec == Init /\ [][Next]_vars

----------------------------------------------------------------------------
(* Properties of parse_br_number and br_int, over the behaviours of SpecParse *)

HasDigit(s) == \E i \in 1..Len(s) : s[i] \in DigitChars

\* the separator rules as the specification words them: a string with '.' and
\* no ',' loses its dots
ClaimedSeparators(s) ==
    IF Contains(s, ".") /\ Contains(s, ",")
    THEN Replace(Replace(s, ".", <<>>), ",", <<".">>)
    ELSE IF Contains(s, ".")
    THEN Replace(s, ".", <<>>)
    ELSE IF Contains(s, ",")
    THEN Replace(s, ",", <<".">>)
    ELSE s

ClaimedParse(s) == PyFloat(KeepNumeric(ClaimedSeparators(Replace(Strip(s), " ", <<>>))))

\* C1: for every string, parse_br_number returns what the specification's
\* separator rules give; in particular a string with '.' and no ',' is read
\* with its dots removed ("40.917" is 40917.0).
C1_ParserFollowsSeparatorRules ==
    (mode = "parse" /\ ppc = "done" /\ x.k = "str") => out = ClaimedParse(x.s)

\* C2: parse_br_number(br_int(N)) = N for the non-negative integers N < 10^9.
C2_RoundTrip ==
    (mode = "roundtrip" /\ ppc = "done") => out = Float(DInt(n))

\* C3: the missing sentinel, and every string without a digit (the empty and
\* the whitespace-only string among them), parse to None, never to a number.
C3_UnparseableIsNone ==
    (mode = "parse" /\ ppc = "done" /\ (x.k = "nan" \/ (x.k = "str" /\ ~HasDigit(x.s))))
        => out = None

\* C3 witness: "abc" has been parsed, to None
C3_Witness ==
    mode = "parse" /\ ppc = "done" /\ x = StrCell(<<"a", "b", "c">>) /\ out = None

----------------------------------------------------------------------------
(* Properties of the run of the script, over the behaviours of Spec *)

AfterRankingReal == pc \in {"loop_selected", "loop_all", "ranking_all", "detail", "done"}
AfterRankingAll == pc \in {"detail", "done"}

\* C4: the yearly totals the rankings use are the exact sums of the parsed
\* values of the region in the year (fractions kept, NaN skipped, duplicate
\* months added, 0 when there is no row): get_year_value over the filtered
\* frame, get_year_all over the whole frame.
C4_YearTotalIsExactSum ==
    AfterRankingReal =>
        \A yr \in TargetYears :
            /\ \A i \in 1..Len(all_ufs) :
                  get_year_all(all_ufs[i], yr) = SumY(df, all_ufs[i], yr)
            /\ \A i \in 1..Len(ufs_selected) :
                  get_year_value(ufs_selected[i], yr) = SumY(df_uf, ufs_selected[i], yr)

\* q is the decline from a to b: a - b when that is positive, else 0
IsDecline(q, a, b) ==
    /\ ~DLess(q, DZero)
    /\ IF DLess(b, a) THEN q = DSub(a, b) ELSE q = DZero

\* C5: every decline column of both ranking tables is max(0, earlier - later)
\* of its two periods, hence never negative, and 0 for a region that grew.
C5_DeclineClamp ==
    /\ AfterRankingReal =>
          \A i \in 1..Len(ranking_real_sorted) :
              LET r == ranking_real_sorted[i]
                  y2023 == get_year_value(r.UF, 2023)
                  y2024 == get_year_value(r.UF, 2024)
                  y2025 == get_year_value(r.UF, 2025)
              IN  /\ IsDecline(r.q2423, y2023, y2024)
                  /\ IsDecline(r.q2523, y2023, y2025)
                  /\ IsDecline(r.q2524, y2024, y2025)
    /\ AfterRankingAll =>
          \A i \in 1..Len(ranking_all_sorted) :
              LET r == ranking_all_sorted[i]
              IN  /\ IsDecline(r.q2423, r.y2023, r.y2024)
                  /\ IsDecline(r.q2523, r.y2023, r.p2025)
                  /\ IsDecline(r.q2524, r.y2024, r.p2025)

\* C5 witness: both tables are displayed; the all-UF table has a region that
\* grew from 2023 to the projection (decline 0) and one that fell (decline > 0),
\* and the real table has a region that grew from 2023 to 2024
C5_Witness ==
    /\ pc = "done"
    /\ \E i \in 1..Len(ranking_all_sorted) :
          /\ DLess(ranking_all_sorted[i].y2023, ranking_all_sorted[i].p2025)
          /\ ranking_all_sorted[i].q2523 = DZero
    /\ \E i \in 1..Len(ranking_all_sorted) :
          /\ DLess(ranking_all_sorted[i].p2025, ranking_all_sorted[i].y2024)
          /\ DLess(DZero, ranking_all_sorted[i].q2524)
    /\ \E i \in 1..Len(ranking_real_sorted) :
          /\ DLess(get_year_value(ranking_real_sorted[i].UF, 2023),
                   get_year_value(ranking_real_sorted[i].UF, 2024))
          /\ ranking_real_sorted[i].q2423 = DZero

\* the arrangement of a stable descending sort: ties keep their input order
StableSortOrders(rows) ==
    {p \in Perms(Len(rows)) :
        \A i, j \in 1..Len(rows) : i < j =>
            \/ DLess(rows[p[j]].maxq, rows[p[i]].maxq)
            \/ rows[p[j]].maxq = rows[p[i]].maxq /\ p[i] < p[j]}

\* t is input in descending order of maxq, rows of equal maxq in input order
IsStablySorted(t, input) ==
    \E p \in StableSortOrders(input) : t = Permuted(input, p)

\* C6: each ranking table is displayed in descending order of the maximum
\* decline, rows of equal maximum decline in their input order.
C6_RankingOrderStable ==
    /\ AfterRankingReal => IsStablySorted(ranking_real_sorted, ranking_real)
    /\ AfterRankingAll => IsStablySorted(ranking_all_sorted, ranking_all)

\* C7: when the run is over, or a region's forecast could not be produced,
\* every region of the table has exactly one row in the all-UF ranking, and a
\* region without an entry in the projection map has 0 as its projected total.
C7_EveryRegionHasRow ==
    (pc = "done" \/ exc.type = "ForecastError") =>
        \A i \in 1..Len(all_ufs) :
            /\ Cardinality({j \in 1..Len(ranking_all_sorted) :
                               ranking_all_sorted[j].UF = all_ufs[i]}) = 1
            /\ \A j \in 1..Len(ranking_all_sorted) :
                  ranking_all_sorted[j].UF = all_ufs[i] =>
                      ranking_all_sorted[j].p2025 = Get(proj_2025_by_uf_all, all_ufs[i], DZero)

\* C8: a run on a table that lacks UF, ds or y ends with the error message as
\* the only thing on the page: no title, table or chart before or after it.
C8_MissingColumnErrorOnly ==
    (pc \in {"stopped", "crashed", "done"} /\ ~(Required \subseteq columns))
        => rendered = <<"error">>

\* C9: a failure of the forecasting collaborator for one region never ends the
\* run: the other regions and the all-UF ranking are still processed.
C9_ForecastFailureIsolated ==
    exc.type = "ForecastError" => pc # "crashed"

\* C10: for a region that has observations in 2025, the 2025 value of the
\* all-UF ranking is the realized 2025 sum (exact, or as get_year_all gives
\* it) plus the sum of the forecast for the rest of 2025.
C10_CombinedCurrentYear ==
    AfterRankingAll =>
        \A i \in 1..Len(ranking_all_sorted) :
            LET r == ranking_all_sorted[i]
                has2025 == \E j \in 1..Len(df) :
                              df[j].UF = r.UF /\ Year(df[j].ds) = 2025 /\ df[j].y.ok
            IN  has2025 =>
                    r.p2025 \in {DAdd(SumY(df, r.UF, 2025), proj_2025_by_uf_all[r.UF]),
                                 DAdd(get_year_all(r.UF, 2025), proj_2025_by_uf_all[r.UF])}

====
